---- MODULE Spec2Model ----
(***************************************************************************)
(* Karaokio: the per-song processing pipeline (autonomousProcessor.ts),    *)
(* the song table (database.ts), the processed-song cache                  *)
(* (cacheManager.ts) and the queue routes (start / complete / add).        *)
(*                                                                         *)
(* Node runs one task at a time, so the code between two awaits is one     *)
(* atomic action.  A collaborator call is a suspension point: the action   *)
(* that issues the call leaves the run in an "await..." position and a     *)
(* separate action models the collaborator's answer (or the timer that     *)
(* races it).  An await on a promise that is already settled (checkCache,  *)
(* addToCache, checkUploadsDirectory: async functions without an await of  *)
(* their own) only yields to other micro-tasks; no request handler and no  *)
(* timer can run there, so such an await stays inside the action.          *)
(*                                                                         *)
(* Spec and FairSpec are the pipeline and the routes.  LookupSpec,         *)
(* SweepSpec and KeySpec call CacheManager directly, as its unit tests do: *)
(* lookups of entries whose files disappear, lookups and sweeps as time    *)
(* passes, and fingerprints of pairs of triples.  QueueSpec and PathSpec   *)
(* call KaraokeDB and the queue routes directly, as the database tests    *)
(* do; EvictSpec puts sweeps next to songs served from the cache.         *)
(***************************************************************************)
EXTENDS Integers, Sequences, FiniteSets, TLC

\* ----- bounds -----------------------------------------------------------
MaxSongs == 2          \* song records that can be created
MaxRuns  == 2          \* calls of processKaraokeSong in one behaviour

SongIds == 1..MaxSongs
RequestIds == 0..MaxSongs      \* the ids a request can name; no song ever has id 0
Runs    == 1..MaxRuns

\* ----- strings ------------------------------------------------------------
\* A string is a sequence of one-character strings.
Undefined == <<"undefined">>      \* what `${undefined}` renders to
NoPath    == <<>>                 \* null / undefined path

High     == <<"h">>
Balanced == <<"b">>
Fast     == <<"f">>

Artist == <<"q">>
Titles == {<<" ", "A">>}

toLowerCase(c) == IF c = "A" THEN "a" ELSE IF c = "Q" THEN "q" ELSE IF c = "H" THEN "h" ELSE c

Lower(s) == [i \in 1..Len(s) |-> toLowerCase(s[i])]

RECURSIVE TrimStart(_)
TrimStart(s) == IF s # <<>> /\ Head(s) = " " THEN TrimStart(Tail(s)) ELSE s

RECURSIVE TrimEnd(_)
TrimEnd(s) == IF s # <<>> /\ s[Len(s)] = " " THEN TrimEnd(SubSeq(s, 1, Len(s) - 1)) ELSE s

Trim(s) == TrimEnd(TrimStart(s))

\* sha256(...).substring(0, 16) is taken as injective on its input string.
Sha256Hex16(s) == s

generateCacheKey(title, artist, quality) ==
    Sha256Hex16(Trim(Lower(title)) \o <<"_">> \o Trim(Lower(artist)) \o <<"_">> \o quality)

\* Math.round(progress * 0.15) and Math.round(progress * 0.25)
Round15(p) == (p * 15 + 50) \div 100
Round25(p) == (p * 25 + 50) \div 100

Pcts == {100}                      \* the percentages a progress callback reports

\* ----- state --------------------------------------------------------------
VARIABLES
    songs,        \* songs table: id -> row, for the ids that exist
    registry,     \* processingJobs: the song ids that have an entry
    cache,        \* processed_cache table: cache_key -> row
    files,        \* paths that exist on disk
    run,          \* per call of processKaraokeSong: position and locals
    now,          \* CURRENT_TIMESTAMP, in seconds
    lastCall,     \* the last call a direct caller made and observed, with its outcome
    probe         \* the last two fingerprints a caller asked generateCacheKey for

vars == <<songs, registry, cache, files, run, now, lastCall, probe>>

\* the variables only direct callers of CacheManager change
cmVars == <<now, lastCall, probe>>

NoCall == [op |-> "none", key |-> <<>>, hit |-> FALSE, removed |-> {}]
NoProbe == <<>>

Statuses == {"queued", "processing", "ready", "playing", "completed", "failed"}

IdleRun ==
    [pc |-> "idle", song |-> 0, quality |-> Undefined,
     audioPath |-> NoPath, karaokeVideoPath |-> NoPath,
     instrumental |-> NoPath, lyrics |-> FALSE, lyricsPath |-> NoPath, finalVideoPath |-> NoPath,
     live |-> FALSE, pct |-> 0,
     calls |-> <<>>, cancelled |-> FALSE, wrote |-> 0, result |-> "none"]

\* a run that has returned: its locals are gone; a download it abandoned may live on
Done(rr, result, wrote) ==
    [IdleRun EXCEPT !.pc = "done", !.song = rr.song, !.result = result, !.wrote = wrote,
                    !.live = rr.live]

Init ==
    /\ songs = <<>>
    /\ registry = {}
    /\ cache = <<>>
    /\ files = {}
    /\ run = [r \in Runs |-> IdleRun]
    /\ now = 0
    /\ lastCall = NoCall
    /\ probe = NoProbe

\* ----- database.ts --------------------------------------------------------
\* progress is {} when the argument is omitted, {p} otherwise
updateSongStatus(db, id, status, progress) ==
    IF id \notin DOMAIN db THEN db
    ELSE [db EXCEPT ![id].status = status,
                    ![id].progress = IF progress = {} THEN @ ELSE CHOOSE p \in progress : TRUE]

\* an UPDATE that sets the four columns to the values given, NULL for the ones left out
updateSongPaths_SetsAll(db, id, paths) ==
    IF id \notin DOMAIN db THEN db
    ELSE [db EXCEPT ![id].original     = paths.original,
                    ![id].instrumental = paths.instrumental,
                    ![id].lyrics       = paths.lyrics,
                    ![id].video        = paths.video]

\* paths: a record with the four path fields; NoPath marks a falsy value
updateSongPaths(db, id, paths) ==
    IF id \notin DOMAIN db THEN db
    ELSE [db EXCEPT ![id].original     = IF paths.original # NoPath THEN paths.original ELSE @,
                    ![id].instrumental = IF paths.instrumental # NoPath THEN paths.instrumental ELSE @,
                    ![id].lyrics       = IF paths.lyrics # NoPath THEN paths.lyrics ELSE @,
                    ![id].video        = IF paths.video # NoPath THEN paths.video ELSE @]

NoPaths == [original |-> NoPath, instrumental |-> NoPath, lyrics |-> NoPath, video |-> NoPath]

addSong(db, id, title) ==
    [i \in DOMAIN db \cup {id} |->
        IF i = id
        THEN [title |-> title, artist |-> Artist, status |-> "queued", progress |-> 0,
              original |-> NoPath, instrumental |-> NoPath, lyrics |-> NoPath, video |-> NoPath,
              requestedAt |-> id]
        ELSE db[i]]

\* ----- cacheManager.ts ----------------------------------------------------
removeFromCache(c, key) == [k \in DOMAIN c \ {key} |-> c[k]]

Existing(fs, p) == IF p # NoPath /\ p \in fs THEN p ELSE NoPath

\* the files of the row that still exist
CachedFiles(c, fs, key) ==
    [original     |-> Existing(fs, c[key].original),
     instrumental |-> Existing(fs, c[key].instrumental),
     lyrics       |-> Existing(fs, c[key].lyrics),
     video        |-> Existing(fs, c[key].video)]

CacheValid(c, fs, key) ==
    /\ key \in DOMAIN c
    /\ CachedFiles(c, fs, key).instrumental # NoPath
    /\ CachedFiles(c, fs, key).video # NoPath

\* checkCache: TRUE and the files on a hit, FALSE on a miss
checkCacheHit(c, fs, title, artist, quality) ==
    CacheValid(c, fs, generateCacheKey(title, artist, quality))

\* UPDATE ... SET last_accessed = CURRENT_TIMESTAMP
updateLastAccessed(c, key) == [c EXCEPT ![key].lastAccessed = now]

\* checkCache that reports the miss and leaves the row in the table
checkCacheTable_KeepsRow(c, fs, title, artist, quality) ==
    LET key == generateCacheKey(title, artist, quality) IN
    IF key \notin DOMAIN c THEN c
    ELSE updateLastAccessed(c, key)

\* checkCache: the table it leaves (last_accessed set; a row with a missing key file removed)
checkCacheTable(c, fs, title, artist, quality) ==
    LET key == generateCacheKey(title, artist, quality) IN
    IF key \notin DOMAIN c THEN c
    ELSE IF CacheValid(c, fs, key) THEN updateLastAccessed(c, key)
    ELSE removeFromCache(updateLastAccessed(c, key), key)

\* addToCache keyed by the strings as given, not by generateCacheKey
addToCache_RawKey(c, title, artist, quality, f) ==
    LET key == title \o <<"_">> \o artist \o <<"_">> \o quality IN
    [k \in DOMAIN c \cup {key} |->
        IF k = key
        THEN [title |-> title, artist |-> artist, quality |-> quality,
              original |-> f.original, instrumental |-> f.instrumental,
              lyrics |-> f.lyrics, video |-> f.video, lastAccessed |-> now]
        ELSE c[k]]

\* addToCache: INSERT OR REPLACE of the row under generateCacheKey (last_accessed takes
\* its default, CURRENT_TIMESTAMP)
addToCache(c, title, artist, quality, f) ==
    LET key == generateCacheKey(title, artist, quality) IN
    [k \in DOMAIN c \cup {key} |->
        IF k = key
        THEN [title |-> title, artist |-> artist, quality |-> quality,
              original |-> f.original, instrumental |-> f.instrumental,
              lyrics |-> f.lyrics, video |-> f.video, lastAccessed |-> now]
        ELSE c[k]]

\* ----- paths the collaborators produce ---------------------------------------
dlPath(title)   == <<"dl">> \o Artist \o <<"-">> \o title      \* torrentClient.ts outputPath
upPath(title)   == <<"up">> \o Artist \o <<"-">> \o title      \* a match in uploads/
ytPath(title)   == <<"yt">> \o Artist \o <<"_">> \o title      \* youtubeClient.ts fullPath
instPath(audio) == <<"inst">> \o audio                         \* <output>/<audio name>/.../no_vocals.wav
lrcPath(inst)   == <<"lrc">> \o Tail(inst)                     \* dirname(instrumental)/lyrics.lrc
finalPath(inst) == <<"final">> \o Tail(inst)                   \* dirname(instrumental)/final_karaoke_optimized.mp4
genPath(inst)   == <<"gen">> \o Tail(inst)                     \* dirname(instrumental)/generated_karaoke.mp4

ValidQuality(q) == q \in {High, Balanced, Fast}                \* audioProcessor.ts switch (options.quality)

Active(r) == run[r].pc \notin {"idle", "done"}

\* ----- autonomousProcessor.ts: processKaraokeSong ---------------------------
\* a catch block that writes the status without the progress argument
Fail_KeepProgress(r, rr, db, fs) ==
    /\ songs' = updateSongStatus(db, rr.song, "failed", {})
    /\ registry' = registry \ {rr.song}
    /\ run' = [run EXCEPT ![r] = Done(rr, "failed", 0)]
    /\ files' = fs
    /\ UNCHANGED cache
    /\ UNCHANGED cmVars

\* catch + finally
Fail(r, rr, db, fs) ==
    /\ songs' = updateSongStatus(db, rr.song, "failed", {0})
    /\ registry' = registry \ {rr.song}
    /\ run' = [run EXCEPT ![r] = Done(rr, "failed", 0)]
    /\ files' = fs
    /\ UNCHANGED cache
    /\ UNCHANGED cmVars

\* options.useCache as the condition of line 53 reads it
UseCacheTruthy(u) == u = "true"

\* lines 24-72: from the call to the first collaborator await
Begin(r, s, useCache, quality, db) ==
    LET rr == [IdleRun EXCEPT !.song = s, !.quality = quality] IN
    IF s \notin DOMAIN db
    THEN Fail(r, rr, db, files)
    ELSE
      LET title == db[s].title
          artist == db[s].artist
          db1 == updateSongStatus(db, s, "processing", {5})
          hit == checkCacheHit(cache, files, title, artist, quality)
          key == generateCacheKey(title, artist, quality)
      IN
      /\ cache' = checkCacheTable(cache, files, title, artist, quality)
      /\ files' = files
      /\ UNCHANGED cmVars
      /\ IF hit /\ UseCacheTruthy(useCache)
         THEN /\ songs' = updateSongStatus(updateSongPaths(db1, s, CachedFiles(cache, files, key)),
                                           s, "ready", {100})
              /\ registry' = registry \ {s}
              /\ run' = [run EXCEPT ![r] = Done(rr, "hit", 100)]
         ELSE /\ songs' = updateSongStatus(db1, s, "processing", {10})
              /\ registry' = registry \cup {s}
              /\ run' = [run EXCEPT ![r] = [rr EXCEPT !.pc = "awaitFind",
                                                      !.calls = <<"findBestMatch">>, !.wrote = 10]]

\* lines 98-113 without the throw of line 105: the run goes on with no audio file
Acquired_NoThrow(r, rr, audio, up, fs) ==
    LET path == IF audio # NoPath THEN audio ELSE IF up THEN upPath(songs[rr.song].title) ELSE NoPath IN
    /\ songs' = updateSongStatus(
                   updateSongPaths(songs, rr.song, [NoPaths EXCEPT !.original = path]),
                   rr.song, "processing", {30})
    /\ run' = [run EXCEPT ![r] = [rr EXCEPT !.pc = "awaitYouTube", !.audioPath = path, !.pct = 0,
                                            !.calls = Append(@, "getBestKaraokeVideo"), !.wrote = 30]]
    /\ files' = IF path = NoPath THEN fs ELSE fs \cup {path}
    /\ UNCHANGED <<registry, cache, now, lastCall, probe>>

\* lines 98-113 without the uploads fallback of lines 98-102
Acquired_NoFallback(r, rr, audio, up, fs) ==
    IF audio = NoPath
    THEN Fail(r, rr, songs, fs)
    ELSE /\ songs' = updateSongStatus(
                        updateSongPaths(songs, rr.song, [NoPaths EXCEPT !.original = audio]),
                        rr.song, "processing", {30})
         /\ run' = [run EXCEPT ![r] = [rr EXCEPT !.pc = "awaitYouTube", !.audioPath = audio, !.pct = 0,
                                                 !.calls = Append(@, "getBestKaraokeVideo"), !.wrote = 30]]
         /\ files' = fs \cup {audio}
         /\ UNCHANGED <<registry, cache, now, lastCall, probe>>

\* lines 98-113: uploads fallback, then the YouTube lookup is issued
Acquired(r, rr, audio, up, fs) ==
    LET path == IF audio # NoPath THEN audio ELSE IF up THEN upPath(songs[rr.song].title) ELSE NoPath IN
    IF path = NoPath
    THEN Fail(r, rr, songs, fs)
    ELSE /\ songs' = updateSongStatus(
                        updateSongPaths(songs, rr.song, [NoPaths EXCEPT !.original = path]),
                        rr.song, "processing", {30})
         /\ run' = [run EXCEPT ![r] = [rr EXCEPT !.pc = "awaitYouTube", !.audioPath = path, !.pct = 0,
                                                 !.calls = Append(@, "getBestKaraokeVideo"), !.wrote = 30]]
         /\ files' = fs \cup {path}
         /\ UNCHANGED <<registry, cache, now, lastCall, probe>>

\* TorrentClient.findBestMatch answers (it catches its own errors)
FindReturn(r, found, up) ==
    /\ run[r].pc = "awaitFind"
    /\ IF found
       THEN /\ run' = [run EXCEPT ![r].pc = "awaitDownload", ![r].live = TRUE, ![r].pct = 0,
                                  ![r].calls = Append(@, "downloadAudio")]
            /\ UNCHANGED <<songs, registry, cache, files, now, lastCall, probe>>
       ELSE Acquired(r, run[r], NoPath, up, files)

\* the progress interval of downloadAudio fires while the run awaits the race
DownloadProgress(r, p) ==
    /\ run[r].pc = "awaitDownload"
    /\ run[r].live
    /\ p >= run[r].pct
    /\ songs' = updateSongStatus(songs, run[r].song, "processing", {10 + Round15(p)})
    /\ run' = [run EXCEPT ![r].pct = p, ![r].live = (p < 100), ![r].wrote = 10 + Round15(p)]
    /\ UNCHANGED <<registry, cache, files, now, lastCall, probe>>

\* writeStream 'finish': the download promise resolves first
DownloadFinish(r, up) ==
    /\ run[r].pc = "awaitDownload"
    /\ Acquired(r, [run[r] EXCEPT !.live = FALSE], dlPath(songs[run[r].song].title), up,
                files \cup {dlPath(songs[run[r].song].title)})

\* the download promise rejects first (no audio file, stream error, its own 10 minutes)
DownloadError(r, up) ==
    /\ run[r].pc = "awaitDownload"
    /\ Acquired(r, [run[r] EXCEPT !.live = FALSE], NoPath, up, files)

\* the maxTorrentWaitTime timer wins the race: the download goes on unobserved
TorrentTimeout(r, up) ==
    /\ run[r].pc = "awaitDownload"
    /\ Acquired(r, run[r], NoPath, up, files)

\* the interval of a download that lost the race fires
StaleProgress(r, p) ==
    /\ run[r].pc # "awaitDownload"
    /\ run[r].live
    /\ songs' = updateSongStatus(songs, run[r].song, "processing", {10 + Round15(p)})
    /\ run' = [run EXCEPT ![r].live = (p < 100),
                          ![r].wrote = IF Active(r) THEN 10 + Round15(p) ELSE @]
    /\ UNCHANGED <<registry, cache, files, now, lastCall, probe>>

\* a download that lost the race ends (finish, error or its own timeout)
StaleEnd(r, finished) ==
    /\ run[r].pc # "awaitDownload"
    /\ run[r].live
    /\ run' = [run EXCEPT ![r].live = FALSE]
    /\ files' = IF finished THEN files \cup {dlPath(songs[run[r].song].title)} ELSE files
    /\ UNCHANGED <<songs, registry, cache, now, lastCall, probe>>

\* lines 126-146 with a lookup that found nothing treated as an error
Looked_VideoRequired(r, video, fs) ==
    IF video = NoPath
    THEN Fail(r, run[r], songs, fs)
    ELSE /\ songs' = updateSongStatus(songs, run[r].song, "processing", {45})
         /\ run' = [run EXCEPT ![r].pc = "awaitSeparate", ![r].karaokeVideoPath = video, ![r].pct = 0,
                               ![r].calls = Append(@, "separateVocals"), ![r].wrote = 45]
         /\ files' = fs
         /\ UNCHANGED <<registry, cache, now, lastCall, probe>>

\* lines 126-146: the lookup is over, separation is issued
Looked(r, video, fs) ==
    /\ songs' = updateSongStatus(songs, run[r].song, "processing", {45})
    /\ run' = [run EXCEPT ![r].pc = "awaitSeparate", ![r].karaokeVideoPath = video, ![r].pct = 0,
                          ![r].calls = Append(@, "separateVocals"), ![r].wrote = 45]
    /\ files' = fs
    /\ UNCHANGED <<registry, cache, now, lastCall, probe>>

\* YouTubeClient.getBestKaraokeVideo answers (it catches its own errors)
YouTubeReturn(r, found) ==
    /\ run[r].pc = "awaitYouTube"
    /\ IF found
       THEN Looked(r, ytPath(songs[run[r].song].title), files \cup {ytPath(songs[run[r].song].title)})
       ELSE Looked(r, NoPath, files)

\* the maxYouTubeWaitTime timer wins the race
YouTubeTimeout(r) ==
    /\ run[r].pc = "awaitYouTube"
    /\ Looked(r, NoPath, files)

\* the onProgress callback of separateVocals
SeparateProgress(r, p) ==
    /\ run[r].pc = "awaitSeparate"
    /\ ValidQuality(run[r].quality)
    /\ p >= run[r].pct
    /\ songs' = updateSongStatus(songs, run[r].song, "processing", {45 + Round25(p)})
    /\ run' = [run EXCEPT ![r].pct = p, ![r].wrote = 45 + Round25(p)]
    /\ UNCHANGED <<registry, cache, files, now, lastCall, probe>>

\* lines 139-155 with a rejected separation swallowed: the run goes on with no instrumental
SeparateReturn_NoThrow(r, ok) ==
    /\ run[r].pc = "awaitSeparate"
    /\ ok => ValidQuality(run[r].quality)
    /\ LET inst == IF ok THEN instPath(run[r].audioPath) ELSE NoPath IN
       /\ songs' = updateSongStatus(
                     updateSongPaths(songs, run[r].song, [NoPaths EXCEPT !.instrumental = inst]),
                     run[r].song, "processing", {75})
       /\ run' = [run EXCEPT ![r].pc = "awaitLyrics", ![r].instrumental = inst, ![r].pct = 0,
                             ![r].calls = Append(@, "fetchLyrics"), ![r].wrote = 75]
       /\ files' = IF ok THEN files \cup {inst} ELSE files
       /\ UNCHANGED <<registry, cache, now, lastCall, probe>>

\* AudioProcessor.separateVocals answers; lines 148-155
SeparateReturn(r, ok) ==
    /\ run[r].pc = "awaitSeparate"
    /\ ok => ValidQuality(run[r].quality)
    /\ IF ok
       THEN LET inst == instPath(run[r].audioPath) IN
            /\ songs' = updateSongStatus(
                          updateSongPaths(songs, run[r].song, [NoPaths EXCEPT !.instrumental = inst]),
                          run[r].song, "processing", {75})
            /\ run' = [run EXCEPT ![r].pc = "awaitLyrics", ![r].instrumental = inst, ![r].pct = 0,
                                  ![r].calls = Append(@, "fetchLyrics"), ![r].wrote = 75]
            /\ files' = files \cup {inst}
            /\ UNCHANGED <<registry, cache, now, lastCall, probe>>
       ELSE Fail(r, run[r], songs, files)

\* lines 171-212: the compose strategy is chosen and issued
Compose(r, rr, db, fs) ==
    LET replace == rr.karaokeVideoPath # NoPath /\ rr.karaokeVideoPath \in fs
        call == IF replace THEN "replaceAudio"
                ELSE IF rr.lyricsPath # NoPath /\ rr.lyrics THEN "generateKaraokeVideo"
                ELSE "createLyricVideo"
    IN
    /\ songs' = updateSongStatus(db, rr.song, "processing", {85})
    /\ run' = [run EXCEPT ![r] = [rr EXCEPT !.pc = "awaitCompose", !.calls = Append(@, call),
                                            !.finalVideoPath = IF replace THEN finalPath(rr.instrumental)
                                                               ELSE genPath(rr.instrumental),
                                            !.wrote = 85]]
    /\ files' = fs
    /\ UNCHANGED <<registry, cache, now, lastCall, probe>>

\* LyricsProcessor.fetchLyrics answers (it catches its own errors); lines 158-168
LyricsReturn(r, found) ==
    /\ run[r].pc = "awaitLyrics"
    /\ IF found
       THEN /\ run' = [run EXCEPT ![r].pc = "awaitSync", ![r].lyrics = TRUE,
                                  ![r].calls = Append(@, "smartSynchronize")]
            /\ UNCHANGED <<songs, registry, cache, files, now, lastCall, probe>>
       ELSE Compose(r, run[r], songs, files)

\* LyricsProcessor.smartSynchronize answers; lines 160-165 (writeFileSync can throw)
SyncReturn(r, ok) ==
    /\ run[r].pc = "awaitSync"
    /\ IF ok
       THEN LET lrc == lrcPath(run[r].instrumental) IN
            Compose(r, [run[r] EXCEPT !.lyricsPath = lrc],
                    updateSongPaths(songs, run[r].song, [NoPaths EXCEPT !.lyrics = lrc]),
                    files \cup {lrc})
       ELSE Fail(r, run[r], songs, files)

\* lines 214-249 without the updateSongPaths of line 214
ComposeReturn_NoVideoPath(r, ok) ==
    /\ run[r].pc = "awaitCompose"
    /\ IF ok
       THEN LET rr == run[r]
                final == rr.finalVideoPath
                made == files \cup {final}
            IN
            /\ songs' = updateSongStatus(songs, rr.song, "ready", {100})
            /\ cache' = addToCache(cache, songs[rr.song].title, songs[rr.song].artist, rr.quality,
                                   [original |-> rr.audioPath, instrumental |-> rr.instrumental,
                                    lyrics |-> rr.lyricsPath, video |-> final])
            /\ files' = IF rr.karaokeVideoPath # NoPath /\ rr.karaokeVideoPath # final
                        THEN made \ {rr.karaokeVideoPath} ELSE made
            /\ registry' = registry \ {rr.song}
            /\ UNCHANGED cmVars
            /\ run' = [run EXCEPT ![r] = Done(rr, IF rr.karaokeVideoPath # NoPath /\ rr.lyricsPath # NoPath
                                                    THEN "all" ELSE "ready", 100)]
       ELSE Fail(r, run[r], songs, files)

\* the compose collaborators answer; lines 214-249
ComposeReturn(r, ok) ==
    /\ run[r].pc = "awaitCompose"
    /\ IF ok
       THEN LET rr == run[r]
                final == rr.finalVideoPath
                made == files \cup {final}
            IN
            /\ songs' = updateSongStatus(
                          updateSongPaths(songs, rr.song, [NoPaths EXCEPT !.video = final]),
                          rr.song, "ready", {100})
            /\ cache' = addToCache(cache, songs[rr.song].title, songs[rr.song].artist, rr.quality,
                                   [original |-> rr.audioPath, instrumental |-> rr.instrumental,
                                    lyrics |-> rr.lyricsPath, video |-> final])
            /\ files' = IF rr.karaokeVideoPath # NoPath /\ rr.karaokeVideoPath # final
                        THEN made \ {rr.karaokeVideoPath} ELSE made
            /\ registry' = registry \ {rr.song}
            /\ UNCHANGED cmVars
            /\ run' = [run EXCEPT ![r] = Done(rr, IF rr.karaokeVideoPath # NoPath /\ rr.lyricsPath # NoPath
                                                    THEN "all" ELSE "ready", 100)]
       ELSE Fail(r, run[r], songs, files)

\* cancelProcessing
CancelProcessing(s) ==
    /\ registry' = registry \ {s}
    /\ songs' = updateSongStatus(songs, s, "failed", {})
    /\ run' = [r \in Runs |-> IF Active(r) /\ run[r].song = s
                              THEN [run[r] EXCEPT !.cancelled = TRUE] ELSE run[r]]
    /\ UNCHANGED <<cache, files, now, lastCall, probe>>

\* ----- database.ts queries ---------------------------------------------------
RECURSIVE OrderByRequestedAt(_, _)
OrderByRequestedAt(db, ids) ==
    IF ids = {} THEN <<>>
    ELSE LET first == CHOOSE i \in ids : \A j \in ids : db[i].requestedAt <= db[j].requestedAt
         IN <<first>> \o OrderByRequestedAt(db, ids \ {first})

\* getQueue: the ids of the rows it returns, in the order it returns them
getQueue(db) ==
    OrderByRequestedAt(db, {i \in DOMAIN db : db[i].status \in {"queued", "processing", "ready", "playing"}})

\* getCurrentSong: the rows WHERE status = 'playing' (LIMIT 1 takes one of them)
PlayingSongs(db) == {i \in DOMAIN db : db[i].status = "playing"}

\* getSong: the QueuedSong it returns, <<>> for null
getSong(db, id) ==
    IF id \notin DOMAIN db THEN <<>>
    ELSE [id |-> id, songTitle |-> db[id].title, artist |-> db[id].artist,
          requestedAt |-> db[id].requestedAt, status |-> db[id].status,
          processingProgress |-> db[id].progress,
          karaoke |-> IF db[id].instrumental # NoPath
                      THEN [instrumentalUrl |-> db[id].instrumental, lyricsUrl |-> db[id].lyrics,
                            videoUrl |-> db[id].video]
                      ELSE <<>>]

\* autonomousProcessor.ts getProcessingStatus
getProcessingStatus(songId) ==
    [exists |-> songId \in registry, song |-> getSong(songs, songId),
     isProcessing |-> songId \in registry]

\* ----- routes -----------------------------------------------------------------
HasIdle == \E r \in Runs : run[r].pc = "idle"
FirstIdle == CHOOSE r \in Runs : run[r].pc = "idle" /\ \A q \in Runs : q < r => run[q].pc # "idle"

RouteQualities == {Balanced}       \* processingQuality || 'balanced'
CallerQualities == {Undefined, Balanced}     \* options.quality of a direct caller
CallerUseCache == {"undefined", "true", "false"}

\* POST /api/queue/add: a fresh id, addSong, processKaraokeSong(songId, {quality, outputFormat})
AddSong(title, quality) ==
    /\ Cardinality(DOMAIN songs) < MaxSongs
    /\ HasIdle
    /\ Begin(FirstIdle, Cardinality(DOMAIN songs) + 1, "undefined", quality,
             addSong(songs, Cardinality(DOMAIN songs) + 1, title))

\* processKaraokeSong(songId, options) called directly
Submit(s, useCache, quality) ==
    /\ HasIdle
    /\ Begin(FirstIdle, s, useCache, quality, songs)

\* POST /api/queue/[songId]/start: the status of its reply
startReply(db, s) ==
    IF s \notin DOMAIN db THEN 404 ELSE IF db[s].status # "ready" THEN 400 ELSE 200

\* a start handler that does not read the song's status
startSong_NoStatusCheck(db, s) ==
    IF s \notin DOMAIN db THEN {db}
    ELSE IF PlayingSongs(db) = {} THEN {updateSongStatus(db, s, "playing", {})}
    ELSE {updateSongStatus(updateSongStatus(db, c, "completed", {}), s, "playing", {}) :
             c \in PlayingSongs(db)}

\* POST /api/queue/[songId]/start: the tables it can leave (getCurrentSong's LIMIT 1
\* returns one of the playing rows)
startSong(db, s) ==
    IF startReply(db, s) # 200 THEN {db}
    ELSE IF PlayingSongs(db) = {} THEN {updateSongStatus(db, s, "playing", {})}
    ELSE {updateSongStatus(updateSongStatus(db, c, "completed", {}), s, "playing", {}) :
             c \in PlayingSongs(db)}

StartSong(s) ==
    /\ songs' \in startSong(songs, s)
    /\ UNCHANGED <<registry, cache, files, run, now, lastCall, probe>>

\* POST complete: queue.find(song => song.status === 'ready'), 0 when there is none
nextSong(db) ==
    LET ready == SelectSeq(getQueue(db), LAMBDA i : db[i].status = "ready")
    IN IF ready # <<>> THEN Head(ready) ELSE 0

\* a complete handler that starts no next song
completeSong_NoPromote(db, s) ==
    updateSongStatus(db, s, "completed", {})

\* POST /api/queue/[songId]/complete: the table it leaves
completeSong(db, s) ==
    LET db1 == updateSongStatus(db, s, "completed", {})
    IN IF nextSong(db1) # 0 THEN updateSongStatus(db1, nextSong(db1), "playing", {}) ELSE db1

CompleteSong(s) ==
    /\ songs' = completeSong(songs, s)
    /\ UNCHANGED <<registry, cache, files, run, now, lastCall, probe>>

\* ----- specification -----------------------------------------------------------
Next ==
    \/ \E t \in Titles, q \in RouteQualities : AddSong(t, q)
    \/ \E s \in RequestIds, u \in CallerUseCache, q \in CallerQualities : Submit(s, u, q)
    \/ \E r \in Runs, f \in BOOLEAN, up \in BOOLEAN : FindReturn(r, f, up)
    \/ \E r \in Runs, p \in Pcts : DownloadProgress(r, p)
    \/ \E r \in Runs, up \in BOOLEAN : DownloadFinish(r, up)
    \/ \E r \in Runs, up \in BOOLEAN : DownloadError(r, up)
    \/ \E r \in Runs, up \in BOOLEAN : TorrentTimeout(r, up)
    \/ \E r \in Runs, p \in Pcts : StaleProgress(r, p)
    \/ \E r \in Runs, f \in BOOLEAN : StaleEnd(r, f)
    \/ \E r \in Runs, f \in BOOLEAN : YouTubeReturn(r, f)
    \/ \E r \in Runs : YouTubeTimeout(r)
    \/ \E r \in Runs, p \in Pcts : SeparateProgress(r, p)
    \/ \E r \in Runs, ok \in BOOLEAN : SeparateReturn(r, ok)
    \/ \E r \in Runs, f \in BOOLEAN : LyricsReturn(r, f)
    \/ \E r \in Runs, ok \in BOOLEAN : SyncReturn(r, ok)
    \/ \E r \in Runs, ok \in BOOLEAN : ComposeReturn(r, ok)
    \/ \E s \in RequestIds : CancelProcessing(s)
    \/ \E s \in RequestIds : StartSong(s)
    \/ \E s \in RequestIds : CompleteSong(s)

Spec == Init /\ [][Next]_vars

\* A timer the run has armed fires; no collaborator is obliged to answer.
FairSpec ==
    /\ Init /\ [][Next]_vars
    /\ \A r \in Runs : WF_vars(\E up \in BOOLEAN : TorrentTimeout(r, up))
    /\ \A r \in Runs : WF_vars(YouTubeTimeout(r))

\* ----- CacheManager called directly ---------------------------------------------
\* checkCache, addToCache and cleanupOldEntries hold no await and the sqlite driver is
\* synchronous: each call runs to its end before any other code, so each is one action.
MaxDays == 2           \* days the clock can advance

Day == 86400           \* datetime('now', '-N days'), in seconds

CacheTitles == {<<" ", "A">>, <<"a">>, <<"h">>, <<"q">>}
CacheQualities == {Balanced}
AgeArgs == {0, 1}              \* maxAgeDays
EntryArgs == {0, 1, 2}         \* maxEntries

\* the files a direct caller hands to addToCache: one pair per fingerprint
CallerFiles(title, quality) ==
    [original     |-> NoPath,
     instrumental |-> <<"cinst">> \o generateCacheKey(title, Artist, quality),
     lyrics       |-> NoPath,
     video        |-> <<"cvideo">> \o generateCacheKey(title, Artist, quality)]

\* the caller writes the files, then CacheManager.addToCache(title, artist, quality, files)
CacheAdd(title, quality) ==
    LET f == CallerFiles(title, quality) IN
    /\ files' = files \cup {f.instrumental, f.video}
    /\ cache' = addToCache(cache, title, Artist, quality, f)
    /\ UNCHANGED <<songs, registry, run, now, lastCall, probe>>

\* CacheManager.checkCache(title, artist, quality)
CheckCache(title, quality) ==
    LET key == generateCacheKey(title, Artist, quality) IN
    /\ cache' = checkCacheTable(cache, files, title, Artist, quality)
    /\ lastCall' = [op |-> "checkCache", key |-> key,
                    hit |-> checkCacheHit(cache, files, title, Artist, quality),
                    removed |-> DOMAIN cache \ DOMAIN cache']
    /\ UNCHANGED <<songs, registry, run, files, now, probe>>

\* last_accessed < datetime('now', '-maxAgeDays days')
Aged(c, maxAgeDays) == {k \in DOMAIN c : c[k].lastAccessed < now - maxAgeDays * Day}

\* ORDER BY last_accessed ASC in place of DESC
TopSets_Oldest(c, maxEntries) ==
    {K \in SUBSET DOMAIN c :
        /\ Cardinality(K) = IF maxEntries < Cardinality(DOMAIN c) THEN maxEntries
                            ELSE Cardinality(DOMAIN c)
        /\ \A k \in K, o \in DOMAIN c \ K : c[k].lastAccessed <= c[o].lastAccessed}

\* the results ORDER BY last_accessed DESC LIMIT maxEntries can have: rows with equal
\* last_accessed come in an order SQL leaves open
TopSets(c, maxEntries) ==
    {K \in SUBSET DOMAIN c :
        /\ Cardinality(K) = IF maxEntries < Cardinality(DOMAIN c) THEN maxEntries
                            ELSE Cardinality(DOMAIN c)
        /\ \A k \in K, o \in DOMAIN c \ K : c[k].lastAccessed >= c[o].lastAccessed}

\* the paths of the rows in keys, without the NULL ones
PathsOf(c, keys) ==
    UNION {{c[k].original, c[k].instrumental, c[k].lyrics, c[k].video} : k \in keys} \ {NoPath}

\* CacheManager.cleanupOldEntries(maxAgeDays, maxEntries); unlinkSync is taken to succeed
CleanupOldEntries(maxAgeDays, maxEntries) ==
    \E top \in TopSets(cache, maxEntries) :
        LET entriesToRemove == Aged(cache, maxAgeDays) \cup (DOMAIN cache \ top) IN
        /\ files' = files \ PathsOf(cache, entriesToRemove)
        /\ cache' = [k \in DOMAIN cache \ entriesToRemove |-> cache[k]]
        /\ lastCall' = [op |-> "cleanupOldEntries", key |-> <<>>, hit |-> FALSE,
                        removed |-> entriesToRemove]
        /\ UNCHANGED <<songs, registry, run, now, probe>>

\* a file is deleted outside CacheManager: fs.existsSync(path) turns false
FileLost(path) ==
    /\ path \in files
    /\ files' = files \ {path}
    /\ UNCHANGED <<songs, registry, cache, run, now, lastCall, probe>>

\* time passes: a day; calls made before the next step fall into the same second
Tick ==
    /\ now \div Day < MaxDays
    /\ now' = now + Day
    /\ UNCHANGED <<songs, registry, cache, files, run, lastCall, probe>>

\* lookups of entries whose files can disappear
LookupNext ==
    \/ \E t \in CacheTitles, q \in CacheQualities : CacheAdd(t, q)
    \/ \E t \in CacheTitles, q \in CacheQualities : CheckCache(t, q)
    \/ \E t \in CacheTitles, q \in CacheQualities :
          FileLost(CallerFiles(t, q).instrumental) \/ FileLost(CallerFiles(t, q).video)

LookupSpec == Init /\ [][LookupNext]_vars

\* lookups and sweeps as time passes
SweepNext ==
    \/ \E t \in CacheTitles, q \in CacheQualities : CacheAdd(t, q)
    \/ \E t \in CacheTitles, q \in CacheQualities : CheckCache(t, q)
    \/ \E d \in AgeArgs, n \in EntryArgs : CleanupOldEntries(d, n)
    \/ Tick

SweepSpec == Init /\ [][SweepNext]_vars

\* ----- generateCacheKey called directly ------------------------------------------
KeyTitles == {<<"a">>, <<" ", "A">>, <<"A", " ">>, <<"a", "_", "q">>}
KeyArtists == {<<"q">>, <<"Q">>, <<"q", "_", "q">>}
KeyQualities == {<<"h">>, <<"H">>}

Fingerprinted(title, artist, quality) ==
    [title |-> title, artist |-> artist, quality |-> quality,
     key |-> generateCacheKey(title, artist, quality)]

\* a caller computes the fingerprints of two triples
Fingerprint(t1, a1, q1, t2, a2, q2) ==
    /\ probe' = <<Fingerprinted(t1, a1, q1), Fingerprinted(t2, a2, q2)>>
    /\ UNCHANGED <<songs, registry, cache, files, run, now, lastCall>>

KeyNext ==
    \E t1 \in KeyTitles, a1 \in KeyArtists, q1 \in KeyQualities,
       t2 \in KeyTitles, a2 \in KeyArtists, q2 \in KeyQualities :
        Fingerprint(t1, a1, q1, t2, a2, q2)

KeySpec == Init /\ [][KeyNext]_vars

\* ----- KaraokeDB and the queue routes called directly ---------------------------------
\* The handlers and KaraokeDB hold no await between their statements, so each is one action.
MaxQueue == 3          \* song records a direct caller creates

QueueIds == 0..MaxQueue            \* the ids a request can name; no song has id 0
RequestTimes == 1..MaxQueue        \* requested_at values, all different

\* KaraokeDB.addSong(song) with a requestedAt of the caller's choice
DbAddSong(title, at) ==
    LET id == Cardinality(DOMAIN songs) + 1 IN
    /\ id <= MaxQueue
    /\ \A i \in DOMAIN songs : songs[i].requestedAt # at
    /\ songs' = [addSong(songs, id, title) EXCEPT ![id].requestedAt = at]
    /\ UNCHANGED <<registry, cache, files, run, now, lastCall, probe>>

\* KaraokeDB.updateSongStatus(id, status)
DbSetStatus(s, status) ==
    /\ songs' = updateSongStatus(songs, s, status, {})
    /\ UNCHANGED <<registry, cache, files, run, now, lastCall, probe>>

\* POST /api/queue/[songId]/start with its reply observed
StartRequest(s) ==
    /\ songs' \in startSong(songs, s)
    /\ lastCall' = [op |-> "start", id |-> s, status |-> startReply(songs, s)]
    /\ UNCHANGED <<registry, cache, files, run, now, probe>>

\* POST /api/queue/[songId]/complete with its reply (nextSongId) observed
CompleteRequest(s) ==
    /\ songs' = completeSong(songs, s)
    /\ lastCall' = [op |-> "complete", id |-> s,
                    nextSongId |-> nextSong(updateSongStatus(songs, s, "completed", {}))]
    /\ UNCHANGED <<registry, cache, files, run, now, probe>>

QueueNext ==
    \/ \E t \in Titles, at \in RequestTimes : DbAddSong(t, at)
    \/ \E s \in QueueIds, st \in Statuses : DbSetStatus(s, st)
    \/ \E s \in QueueIds : StartRequest(s)
    \/ \E s \in QueueIds : CompleteRequest(s)

QueueSpec == Init /\ [][QueueNext]_vars

\* ----- KaraokeDB.updateSongPaths called directly ----------------------------------------
PathColumns == {"original", "instrumental", "lyrics", "video"}
PathValues == {NoPath, <<"p">>}        \* left out, undefined, null or '' / a path
PathArgs == [PathColumns -> PathValues]

\* KaraokeDB.updateSongStatus(id, 'ready', 100)
DbSetReady(s) ==
    /\ songs' = updateSongStatus(songs, s, "ready", {100})
    /\ UNCHANGED <<registry, cache, files, run, now, lastCall, probe>>

\* KaraokeDB.updateSongPaths(id, paths)
DbUpdatePaths(s, paths) ==
    /\ songs' = updateSongPaths(songs, s, paths)
    /\ UNCHANGED <<registry, cache, files, run, now, lastCall, probe>>

\* KaraokeDB.addSong(song), each song requested after the ones before it
PathAddSong(title) ==
    /\ Cardinality(DOMAIN songs) < MaxSongs
    /\ DbAddSong(title, Cardinality(DOMAIN songs) + 1)

PathNext ==
    \/ \E t \in Titles : PathAddSong(t)
    \/ \E s \in RequestIds : DbSetReady(s)
    \/ \E s \in RequestIds, paths \in PathArgs : DbUpdatePaths(s, paths)

PathSpec == Init /\ [][PathNext]_vars

\* ----- sweeps next to entries in use ---------------------------------------------------
\* the files the test 'should clean up old entries' hands to every addToCache
SameFiles ==
    [original |-> NoPath, instrumental |-> <<"cinst">>, lyrics |-> NoPath, video |-> <<"cvideo">>]

\* CacheManager.addToCache(title, artist, quality, testFiles) with files other entries have
CacheAddSame(title, quality) ==
    /\ files' = files \cup {SameFiles.instrumental, SameFiles.video}
    /\ cache' = addToCache(cache, title, Artist, quality, SameFiles)
    /\ UNCHANGED <<songs, registry, run, now, lastCall, probe>>

EvictTitles == {<<"a">>, <<"h">>}      \* <<"a">> has the fingerprint of the songs' title

\* the paths on the records of the songs that are ready or playing
ServedPaths(db) ==
    UNION {{db[i].original, db[i].instrumental, db[i].lyrics, db[i].video} :
              i \in {j \in DOMAIN db : db[j].status \in {"ready", "playing"}}} \ {NoPath}

\* songs served from the cache, entries added and sweeps
EvictNext ==
    \/ \E t \in Titles : PathAddSong(t)
    \/ \E s \in RequestIds, q \in CallerQualities : Submit(s, "true", q)
    \/ \E t \in EvictTitles, q \in CacheQualities : CacheAdd(t, q)
    \/ \E t \in EvictTitles, q \in CacheQualities : CacheAddSame(t, q)
    \/ \E d \in AgeArgs, n \in EntryArgs : CleanupOldEntries(d, n)

EvictSpec == Init /\ [][EvictNext]_vars

\* ----- what a run has called -----------------------------------------------------
\* the runs that have started and not returned
Executing == {r \in Runs : Active(r)}

\* a configured maximum of concurrent job runs, one short of the calls made
MaxConcurrentJobs == MaxRuns - 1

\* the stage a collaborator call belongs to
StageOf(call) ==
    IF call \in {"findBestMatch", "downloadAudio"} THEN 1
    ELSE IF call = "getBestKaraokeVideo" THEN 2
    ELSE IF call = "separateVocals" THEN 3
    ELSE IF call \in {"fetchLyrics", "smartSynchronize"} THEN 4
    ELSE 5

ComposeCalls == {"replaceAudio", "generateKaraokeVideo", "createLyricVideo"}

\* the call run r makes in this step, <<>> when it makes none
NewCall(r) ==
    IF Len(run'[r].calls) = Len(run[r].calls) + 1 THEN <<run'[r].calls[Len(run'[r].calls)]>> ELSE <<>>

Called(r, name) == \E i \in DOMAIN run[r].calls : run[r].calls[i] = name

\* the collaborators of the stages after acquisition and lookup
StageCalls ==
    {"separateVocals", "fetchLyrics", "smartSynchronize",
     "replaceAudio", "generateKaraokeVideo", "createLyricVideo"}

\* no other call of processKaraokeSong was made for the song of run r
OnlyRunOf(r) == \A o \in Runs \ {r} : run[o].song # run[r].song

\* ----- claims -------------------------------------------------------------------

\* C1: at most one job run is active per song id at any time (a second submit for a
\* song whose run is in progress starts no second run).
C1_OneActiveRunPerSong ==
    \A s \in SongIds : Cardinality({r \in Runs : Active(r) /\ run[r].song = s}) <= 1

\* C2: a call of processKaraokeSong that finds a valid cache entry for the song and was
\* not given useCache = false ends at once with the cached paths on the record, status
\* ready, progress 100, and no collaborator invoked.
C2_CacheHitUsed ==
    [][\A s \in DOMAIN songs, u \in {"undefined", "true"}, q \in CallerQualities :
          (Submit(s, u, q) /\ checkCacheHit(cache, files, songs[s].title, songs[s].artist, q))
          => /\ songs'[s].status = "ready"
             /\ songs'[s].progress = 100
             /\ run'[FirstIdle].pc = "done"
             /\ run'[FirstIdle].calls = <<>>]_vars

\* C3: a progress callback of a download the run has abandoned changes no song's status
\* or progress.
C3_StaleCallbackDiscarded ==
    [][\A r \in Runs, p \in Pcts : StaleProgress(r, p) => songs' = songs]_vars

\* C4: the progress values one run writes never decrease while the run is in progress,
\* except for the reset to 0 that comes with status failed.
C4_ProgressMonotone ==
    [][\A r \in Runs :
          Active(r) => \/ run'[r].wrote >= run[r].wrote
                       \/ run'[r].wrote = 0 /\ run'[r].result = "failed"]_vars

\* C5: once cancelProcessing was called for the song of an active run, every later step
\* of that run leaves the song failed.
C5_CancelSticks ==
    [][\A r \in Runs :
          (Active(r) /\ run[r].cancelled /\ run'[r] # run[r])
          => songs'[run[r].song].status = "failed"]_vars

\* C6: at most one song has status playing.
C6_AtMostOnePlaying == Cardinality(PlayingSongs(songs)) <= 1

\* C7: a song becomes completed only from playing.
C7_CompletedOnlyFromPlaying ==
    [][\A s \in DOMAIN songs :
          (songs'[s].status = "completed" /\ songs[s].status # "completed")
          => songs[s].status = "playing"]_vars

\* C8: a song becomes failed only from queued or processing, and a failed song is not
\* moved to another status by the run that failed.
C8_FailedOnlyFromNonTerminal ==
    [][\A s \in DOMAIN songs :
          (songs'[s].status = "failed" /\ songs[s].status # "failed")
          => songs[s].status \in {"queued", "processing"}]_vars

\* C9: a run in which acquisition, base-video lookup, separation, lyrics and compose all
\* succeeded ends with status ready, progress 100, the four paths it produced on the song
\* record and a cache entry under generateCacheKey(title, artist, quality).
C9_FullRunReady ==
    [][\A r \in Runs :
          (run[r].pc = "awaitCompose" /\ run'[r].pc = "done" /\ run'[r].result = "all")
          => LET s == run[r].song
                 key == generateCacheKey(songs[s].title, songs[s].artist, run[r].quality)
             IN /\ songs'[s].status = "ready"
                /\ songs'[s].progress = 100
                /\ NoPath \notin {songs'[s].original, songs'[s].instrumental,
                                  songs'[s].lyrics, songs'[s].video}
                /\ songs'[s].video = run[r].finalVideoPath
                /\ key \in DOMAIN cache'
                /\ cache'[key].instrumental = run[r].instrumental
                /\ cache'[key].video = run[r].finalVideoPath]_vars

\* a run has just ended with every stage successful and its song is ready with four paths
C9_Witness ==
    \E r \in Runs :
        /\ run[r].pc = "done" /\ run[r].result = "all"
        /\ songs[run[r].song].status = "ready" /\ songs[run[r].song].progress = 100
        /\ NoPath \notin {songs[run[r].song].original, songs[run[r].song].instrumental,
                          songs[run[r].song].lyrics, songs[run[r].song].video}
        /\ generateCacheKey(songs[run[r].song].title, songs[run[r].song].artist, Balanced) \in DOMAIN cache

\* C10: every run that has started eventually returns.
C10_EveryRunEnds ==
    \A r \in Runs : (run[r].pc # "idle") ~> (run[r].pc = "done")

\* C11: a run that ends by a fatal failure leaves its song (when the song exists) failed
\* with progress 0 and its id out of the in-flight registry, and the run makes no call
\* afterwards: it stays returned.
C11_FatalFailure ==
    [][\A r \in Runs :
          /\ (run[r].pc # "done" /\ run'[r].pc = "done" /\ run'[r].result = "failed")
             => /\ run'[r].song \in DOMAIN songs'
                      => /\ songs'[run'[r].song].status = "failed"
                         /\ songs'[run'[r].song].progress = 0
                /\ run'[r].song \notin registry'
                /\ run'[r].calls = <<>>
          /\ (run[r].pc = "done" /\ run[r].result = "failed")
             => run'[r].pc = "done" /\ run'[r].calls = <<>>]_vars

\* a run has ended by a failure after it started its pipeline; its song is failed / 0
C11_Witness ==
    \E r \in Runs :
        /\ run[r].pc = "done" /\ run[r].result = "failed"
        /\ run[r].song \in DOMAIN songs
        /\ songs[run[r].song].status = "failed" /\ songs[run[r].song].progress = 0
        /\ songs[run[r].song].instrumental # NoPath
        /\ run[r].song \notin registry
        /\ OnlyRunOf(r)

\* C12: when neither the torrent source nor uploads/ yields an audio file the run ends
\* failed, and no run ever calls a separation, lyrics or compose collaborator without an
\* audio file.
C12_NoAudioFails ==
    /\ [](\A r \in Runs : (\E c \in StageCalls : Called(r, c)) => run[r].audioPath # NoPath)
    /\ [][\A r \in Runs :
             (FindReturn(r, FALSE, FALSE) \/ DownloadError(r, FALSE) \/ TorrentTimeout(r, FALSE))
             => /\ run'[r].pc = "done" /\ run'[r].result = "failed"
                /\ songs'[run[r].song].status = "failed"
                /\ \A c \in StageCalls : ~Called(r, c)]_vars

\* the only run of a song has failed and the song never got an original audio path
C12_Witness ==
    \E r \in Runs :
        /\ run[r].pc = "done" /\ run[r].result = "failed"
        /\ run[r].song \in DOMAIN songs
        /\ songs[run[r].song].status = "failed"
        /\ songs[run[r].song].original = NoPath
        /\ OnlyRunOf(r)

\* C13: when the torrent download rejects or loses the race against maxTorrentWaitTime,
\* the run takes the file uploads/ has, if any, and fails only if it has none; from the
\* YouTube step the run goes on to separation with that file.
C13_UploadsFallback ==
    [][\A r \in Runs :
          /\ \A up \in BOOLEAN :
                (DownloadError(r, up) \/ TorrentTimeout(r, up))
                => IF up
                   THEN /\ run'[r].pc = "awaitYouTube"
                        /\ run'[r].audioPath = upPath(songs[run[r].song].title)
                        /\ songs'[run[r].song].original = upPath(songs[run[r].song].title)
                        /\ songs'[run[r].song].status = "processing"
                   ELSE run'[r].pc = "done" /\ run'[r].result = "failed"
          /\ (run[r].pc = "awaitYouTube" /\ run'[r].pc # "awaitYouTube")
             => /\ run'[r].pc = "awaitSeparate"
                /\ run'[r].audioPath = run[r].audioPath
                /\ run'[r].calls = Append(run[r].calls, "separateVocals")]_vars

\* a run whose download was tried is at separation with the file from uploads/
C13_Witness ==
    \E r \in Runs :
        /\ run[r].pc = "awaitSeparate"
        /\ Called(r, "downloadAudio")
        /\ run[r].audioPath = upPath(songs[run[r].song].title)

C15_LyricsNonFatal ==
    [][\A r \in Runs :
          (run[r].pc \in {"awaitLyrics", "awaitSync"} /\ run'[r].pc # run[r].pc)
          => /\ run'[r].result # "failed"
             /\ songs'[run[r].song].status # "failed"]_vars

\* C16: checkCache reports a hit only for a row whose instrumental and video files exist;
\* a lookup that finds a row with one of them missing, or no row, reports a miss and
\* leaves no row under the key, so the next lookup of the key misses as well.
C16_NoStaleHit ==
    [][\A t \in CacheTitles, q \in CacheQualities :
          CheckCache(t, q)
          => LET key == generateCacheKey(t, Artist, q)
                 present == /\ key \in DOMAIN cache
                            /\ cache[key].instrumental \in files
                            /\ cache[key].video \in files
             IN /\ lastCall'.hit => present /\ key \in DOMAIN cache'
                /\ ~present => ~lastCall'.hit /\ key \notin DOMAIN cache']_vars

\* a lookup has found a row with a missing file, removed it and reported a miss
C16_Witness ==
    /\ lastCall.op = "checkCache"
    /\ ~lastCall.hit
    /\ lastCall.removed = {lastCall.key}
    /\ lastCall.key \notin DOMAIN cache

\* C17: after cleanupOldEntries(maxAgeDays, N) at most N rows remain, the rows kept are
\* unchanged, and every row removed only for the count was accessed no later than every
\* row kept.
C17_SweepKeepsRecent ==
    [][\A d \in AgeArgs, n \in EntryArgs :
          CleanupOldEntries(d, n)
          => /\ Cardinality(DOMAIN cache') <= n
             /\ \A j \in DOMAIN cache' : j \in DOMAIN cache /\ cache'[j] = cache[j]
             /\ \A k \in (DOMAIN cache \ DOMAIN cache') \ Aged(cache, d), j \in DOMAIN cache' :
                    cache[k].lastAccessed <= cache[j].lastAccessed]_vars

\* a sweep over three rows has removed some and kept some
C17_Witness ==
    /\ lastCall.op = "cleanupOldEntries"
    /\ lastCall.removed # {}
    /\ DOMAIN cache # {}
    /\ Cardinality(lastCall.removed) + Cardinality(DOMAIN cache) = 3

\* C18: a sweep (with N >= 1) that runs right after a lookup served an entry, in the same
\* second, neither deletes that entry nor unlinks one of its files.
C18_ServedEntrySurvivesSweep ==
    [][\A d \in AgeArgs, n \in EntryArgs \ {0} :
          (/\ CleanupOldEntries(d, n)
           /\ lastCall.op = "checkCache" /\ lastCall.hit
           /\ lastCall.key \in DOMAIN cache
           /\ cache[lastCall.key].lastAccessed = now)
          => /\ lastCall.key \in DOMAIN cache'
             /\ PathsOf(cache, {lastCall.key}) \subseteq files']_vars

\* case-folding and trimming of one component
Norm(str) == Lower(Trim(str))

\* C19: two triples that are equal after case-folding and trimming each of the three
\* components get the same fingerprint.
C19_KeyIgnoresCaseAndSpace ==
    probe # NoProbe
    => ((/\ Norm(probe[1].title) = Norm(probe[2].title)
         /\ Norm(probe[1].artist) = Norm(probe[2].artist)
         /\ Norm(probe[1].quality) = Norm(probe[2].quality))
        => probe[1].key = probe[2].key)

\* C20: two triples that differ after case-folding and trimming each component get
\* different fingerprints.
C20_KeySeparatesTriples ==
    probe # NoProbe
    => ((\/ Norm(probe[1].title) # Norm(probe[2].title)
         \/ Norm(probe[1].artist) # Norm(probe[2].artist)
         \/ Norm(probe[1].quality) # Norm(probe[2].quality))
        => probe[1].key # probe[2].key)

\* C21: getQueue returns exactly the songs whose status is not completed, each of them
\* once, in ascending order of requestedAt.
C21_ActiveQueue ==
    LET q == getQueue(songs) IN
    /\ {q[i] : i \in DOMAIN q} = {s \in DOMAIN songs : songs[s].status # "completed"}
    /\ \A i, j \in DOMAIN q :
          i < j => q[i] # q[j] /\ songs[q[i]].requestedAt <= songs[q[j]].requestedAt

\* C22: a complete request for an existing song leaves that song completed; when some
\* other song is ready, the ready song with the earliest requestedAt becomes playing, and
\* when none is, no song other than the completed one changes status.
C22_CompletePromotesEarliestReady ==
    [][\A s \in QueueIds :
          (CompleteRequest(s) /\ s \in DOMAIN songs)
          => LET ready == {i \in DOMAIN songs \ {s} : songs[i].status = "ready"} IN
             /\ songs'[s].status = "completed"
             /\ IF ready # {}
                THEN \E n \in ready :
                        /\ \A j \in ready : songs[n].requestedAt <= songs[j].requestedAt
                        /\ songs'[n].status = "playing"
                        /\ lastCall'.nextSongId = n
                ELSE /\ \A i \in DOMAIN songs \ {s} : songs'[i].status = songs[i].status
                     /\ lastCall'.nextSongId = 0]_vars

\* a complete request has started the earlier-requested of two ready songs, which is not
\* the one added first
C22_Witness ==
    /\ lastCall.op = "complete"
    /\ lastCall.id \in DOMAIN songs /\ songs[lastCall.id].status = "completed"
    /\ lastCall.nextSongId \in DOMAIN songs /\ songs[lastCall.nextSongId].status = "playing"
    /\ \E j \in DOMAIN songs :
          /\ songs[j].status = "ready"
          /\ j < lastCall.nextSongId
          /\ songs[j].requestedAt > songs[lastCall.nextSongId].requestedAt

\* C26: a start request that names no song, or a song whose status is not ready, is
\* answered with an error and leaves every song's status as it was; a playing song stays
\* playing.
C26_StartRejected ==
    [][\A s \in QueueIds :
          (StartRequest(s) /\ (s \notin DOMAIN songs \/ songs[s].status # "ready"))
          => /\ lastCall'.status \in {400, 404}
             /\ DOMAIN songs' = DOMAIN songs
             /\ \A i \in DOMAIN songs : songs'[i].status = songs[i].status]_vars

\* a start request for a song that is not ready was answered 400 while another song plays
C26_Witness ==
    /\ lastCall.op = "start"
    /\ lastCall.status = 400
    /\ lastCall.id \in DOMAIN songs /\ songs[lastCall.id].status \in {"queued", "failed"}
    /\ PlayingSongs(songs) # {}

\* C28: updateSongPaths(id, paths) sets, on song id, each path column for which paths holds
\* a non-empty value to that value and leaves the song's other path columns, its status,
\* its progress and its other columns as they were; it changes no other song and creates
\* none; with no non-empty value it changes nothing.
C28_UpdatePathsFrame ==
    [][\A s \in RequestIds, p \in PathArgs :
          DbUpdatePaths(s, p)
          => /\ DOMAIN songs' = DOMAIN songs
             /\ \A i \in DOMAIN songs \ {s} : songs'[i] = songs[i]
             /\ s \in DOMAIN songs
                => /\ \A col \in PathColumns :
                         songs'[s][col] = IF p[col] # NoPath THEN p[col] ELSE songs[s][col]
                   /\ \A col \in DOMAIN songs[s] \ PathColumns : songs'[s][col] = songs[s][col]
             /\ (\A col \in PathColumns : p[col] = NoPath) => songs' = songs]_vars

\* a partial update has set the instrumental path of a ready song and left its lyrics and
\* video columns NULL, next to a song that has the columns the first one lacks
C28_Witness ==
    \E s, o \in DOMAIN songs :
        /\ s # o
        /\ songs[s].status = "ready" /\ songs[s].progress = 100
        /\ songs[s].instrumental # NoPath
        /\ songs[s].lyrics = NoPath /\ songs[s].video = NoPath
        /\ songs[o].status = "queued"
        /\ songs[o].lyrics # NoPath /\ songs[o].instrumental = NoPath

\* C27: cleanupOldEntries unlinks no file that a cache entry it retains refers to, and no
\* file that the record of a ready or playing song refers to.
C27_SweepSparesReferencedFiles ==
    [][\A d \in AgeArgs, n \in EntryArgs :
          CleanupOldEntries(d, n)
          => (files \ files') \cap (PathsOf(cache', DOMAIN cache') \cup ServedPaths(songs')) = {}]_vars

\* C23: the number of job runs executing at the same time never exceeds the configured
\* maximum, and a submission made while that many runs are executing starts no run.
C23_BoundedPool ==
    /\ [](Cardinality(Executing) <= MaxConcurrentJobs)
    /\ [][Cardinality(Executing) >= MaxConcurrentJobs
          => \A r \in Runs : run[r].pc = "idle" => ~Active(r)']_vars

\* C24: the record of a failed song, as getSong and getProcessingStatus return it, carries
\* an error reason.
C24_FailedKeepsReason ==
    \A s \in DOMAIN songs :
        songs[s].status = "failed"
        => /\ "error" \in DOMAIN getSong(songs, s)
           /\ "error" \in DOMAIN getProcessingStatus(s).song

C29_IsProcessingWhileRunning ==
    \A s \in RequestIds :
        getProcessingStatus(s).isProcessing <=> (\E r \in Runs : Active(r) /\ run[r].song = s)

\* C30: a step in which a run sets its song ready, from the cache or after compose, leaves
\* the song record with an instrumental path and a video path.
C30_ReadyHasPaths ==
    [][\A r \in Runs :
          (run[r].pc # "done" /\ run'[r].pc = "done" /\ run'[r].result \in {"hit", "ready", "all"})
          => /\ songs'[run'[r].song].status = "ready"
             /\ songs'[run'[r].song].instrumental # NoPath
             /\ songs'[run'[r].song].video # NoPath]_vars

\* a run has ended by a cache hit and its song is ready with both paths
C30_Witness ==
    \E r \in Runs :
        /\ run[r].pc = "done" /\ run[r].result = "hit"
        /\ songs[run[r].song].status = "ready"
        /\ songs[run[r].song].instrumental # NoPath
        /\ songs[run[r].song].video # NoPath

====
